---- MODULE Spec2Model ----
(***************************************************************************)
(* A model of the IADB toolbox (utils.py and the processing algorithms):   *)
(* the converters dem_to_top (raster DEM -> .top text), points_to_pts       *)
(* (point features -> .pts text) and res_to_netcdf (.QGIS_res text ->       *)
(* netCDF time series), the generators of the SPH configuration files and   *)
(* the algorithms that stage, run and collect an SPH analysis.              *)
(*                                                                         *)
(* Numbers.  Python floats are modelled as exact decimals with two         *)
(* fractional digits: the integer n stands for n/100 (175 is 1.75).        *)
(* Coordinates, pixel size and the values of the samples are all held in   *)
(* hundredths; floating-point rounding error is outside the model.         *)
(***************************************************************************)
EXTENDS Integers, Sequences, FiniteSets, TLC

\* ---------------------------------------------------------------- bounds
RasterWidth == 2
RasterHeight == 2
\* half of the pixel size, in hundredths (pixel size 0.50)
HalfPixel == 25
\* extent.xMinimum() and extent.yMaximum(), in hundredths (1.00 and 2.00)
XMin == 100
YMax == 200
\* the number of time markers and of data rows of the result file
MaxTimes == 3
MaxRows == 3
\* the distance between two time markers of a result file, in hundredths
TimeStep == 50

\* the number of chunks the external process delivers
MaxChunks == 3
\* the number of features of a point source
MaxFeatures == 3
\* the largest result code of the external process
MaxExitCode == 2

\* ------------------------------------------------------ program constants
\* the fill value of the working grids and of the netCDF variables
FillValue == -9999

VARIABLES
    \* res_to_netcdf ------------------------------------------------------
    pc,          \* "start" | "reading" | "closed" | "raised"
    file,        \* the lines of res_file read so far (history of the input)
    sph_time,    \* None, or the time of the last marker read
    block_read,  \* a marker after the first one was read, flush is pending
    data,        \* the accumulated rows
    h, v_x, v_y, v_avg,   \* the working grids
    c,           \* the slice counter
    dates,       \* one entry per time marker
    nc,          \* the netCDF dataset
    writes,      \* log of the grid writes of the flushes that completed
    \* dem_to_top ---------------------------------------------------------
    dpc,         \* "start" | "written" | "rewritten" | "done"
    raster,      \* the DEM band: cell -> None (no data) or Some(elevation)
    top,         \* file_path: None while it does not exist, or Some(its lines)
    bak,         \* file_path.bak: None while it does not exist, or Some(its lines)
    valid_count,
    \* points_to_pts ------------------------------------------------------
    ppc,         \* "start" | "spaced" | "done" | "raised"
    source,      \* the features of the source, in the order it yields them
    field_name,  \* None, or the name of the height attribute
    use_z,
    dist,        \* None, or the spacing computed
    pts,         \* file_path: None while it does not exist, or Some(its lines)
    \* the processing algorithms ------------------------------------------
    alg,          \* the algorithm invoked
    apc,          \* "start" | "staged" | "scripted" | "executed" | "collected" | "returned" | "raised"
    inputs,       \* which inputs of the invocation exist and are valid
    problem_name,
    dirs,         \* the directories that exist
    fs,           \* the files that exist: path -> contents
    work_dir,     \* None, or the directory copy_inputs returned
    batch_file,   \* None, or the path generate_batch_file returned
    proc,         \* None, or what the process reported when it exited
    log,          \* what execute pushed to the feedback, in order
    exc,          \* None, or the exception that left processAlgorithm
    created,      \* the directories and paths the invocation has created
    result,       \* None, or the dictionary processAlgorithm returned
    trace,        \* the calls processAlgorithm has made, in order (history)
    sph_setting,  \* the SPH_EXECUTABLE setting: None, or Some(the path set)
    \* the configuration generators, called twice ---------------------------
    params,       \* the params dictionary of each call
    master_file,  \* per call: None, or the lines generate_master_file wrote
    data_file,    \* per call: None, or the lines generate_data_file wrote
    \* SphAdvancedMode.processAlgorithm up to its call of copy_inputs --------
    adv_pc,       \* "start" | "read" | "raised"
    user,         \* the parameter values the user supplied
    \* the output handlers of execute --------------------------------------
    epc,            \* "running" | "returned" | "raised"
    stdout_buffer,  \* onStdOut.buffer, a sequence of characters
    stderr_buffer,  \* onStdErr.buffer
    console,        \* what the handlers passed to the feedback, in order
    chunks          \* the chunks the process delivered so far (history)

resVars == <<pc, file, sph_time, block_read, data, h, v_x, v_y, v_avg, c, dates, nc, writes>>
demVars == <<dpc, raster, top, bak, valid_count>>
ptsVars == <<ppc, source, field_name, use_z, dist, pts>>
algVars == <<alg, apc, inputs, problem_name, dirs, fs, work_dir, batch_file, proc, log, exc,
             created, result, trace, sph_setting>>
genVars == <<params, master_file, data_file, adv_pc, user>>
\* the state of the operations other than res_to_netcdf and dem_to_top
execVars == <<epc, stdout_buffer, stderr_buffer, console, chunks>>
otherVars == <<ptsVars, algVars, genVars, execVars>>
notPtsVars == <<resVars, demVars, algVars, genVars, execVars>>
notAlgVars == <<resVars, demVars, ptsVars, genVars, execVars>>
notGenVars == <<resVars, demVars, ptsVars, algVars, execVars>>
notExecVars == <<resVars, demVars, ptsVars, algVars, genVars>>
vars == <<pc, file, sph_time, block_read, data, h, v_x, v_y, v_avg, c, dates, nc, writes,
          dpc, raster, top, bak, valid_count, ppc, source, field_name, use_z, dist, pts,
          alg, apc, inputs, problem_name, dirs, fs, work_dir, batch_file, proc, log, exc,
          created, result, trace, sph_setting, params, master_file, data_file, adv_pc, user,
          epc, stdout_buffer, stderr_buffer, console, chunks>>

\* Python's None, and a value for it: <<>> is None, <<v>> is the value v
None == <<>>
Some(v) == <<v>>

\* an operation that is not running
ResIdle ==
    /\ pc = "idle"
    /\ file = <<>>
    /\ sph_time = None
    /\ block_read = FALSE
    /\ data = <<>>
    /\ h = <<>>
    /\ v_x = <<>>
    /\ v_y = <<>>
    /\ v_avg = <<>>
    /\ c = 0
    /\ dates = <<>>
    /\ nc = None
    /\ writes = {}

DemIdle ==
    /\ dpc = "idle"
    /\ raster = <<>>
    /\ top = None
    /\ bak = None
    /\ valid_count = 0

PtsIdle ==
    /\ ppc = "idle"
    /\ source = <<>>
    /\ field_name = None
    /\ use_z = FALSE
    /\ dist = None
    /\ pts = None

AlgIdle ==
    /\ alg = "none"
    /\ apc = "idle"
    /\ inputs = <<>>
    /\ problem_name = ""
    /\ dirs = {}
    /\ fs = <<>>
    /\ work_dir = None
    /\ batch_file = None
    /\ proc = None
    /\ log = <<>>
    /\ exc = None
    /\ created = {}
    /\ result = None
    /\ trace = <<>>
    /\ sph_setting = None

GenIdle ==
    /\ params = <<>>
    /\ master_file = <<>>
    /\ data_file = <<>>
    /\ adv_pc = "idle"
    /\ user = <<>>

ExecIdle ==
    /\ epc = "idle"
    /\ stdout_buffer = <<>>
    /\ stderr_buffer = <<>>
    /\ console = <<>>
    /\ chunks = <<>>

OtherIdle == PtsIdle /\ AlgIdle /\ GenIdle /\ ExecIdle

Rows == 0 .. (RasterHeight - 1)
Cols == 0 .. (RasterWidth - 1)
Cells == Rows \X Cols

\* layer.rasterUnitsPerPixelX()
PixelSize == 2 * HalfPixel

\* -9999 as a number of hundredths
Sentinel == FillValue * 100

\* math.trunc(a / b) for b > 0: the quotient rounded toward zero
trunc(a, b) == IF a >= 0 THEN a \div b ELSE -((-a) \div b)

\* math.floor(a / b) for b > 0
floor(a, b) == a \div b

\* 10.0 ** digits
Pow10(digits) == IF digits = 0 THEN 1 ELSE IF digits = 1 THEN 10 ELSE 100

\* len(str(number).split('.')[1]): str() of a float always prints one
\* fractional digit at least ("2.0")
Decimals(number) == IF number % 10 = 0 THEN 1 ELSE 2

\* truncate(number, digits), digits <= 2
truncate(number, digits) ==
    IF Decimals(number) <= digits
    THEN number
    ELSE trunc(Pow10(digits) * number, 100) * (100 \div Pow10(digits))

\* ymax - (row + 0.5) * pixel_size  and  xmin + (col + 0.5) * pixel_size
\* as res_to_netcdf computes them for its coordinate variables
NcLatitude(row) == YMax - (2 * row + 1) * HalfPixel
NcLongitude(col) == XMin + (2 * col + 1) * HalfPixel

\* the y that the flush looks up for a grid row
RowKey(row) == truncate(YMax - (2 * row + 1) * HalfPixel, 1)

\* numpy.full((raster_height, raster_width), -9999): an integer array
Full == [cell \in Cells |-> Sentinel]

\* storing a float into an element of an integer array drops the fraction
IntCast(v) == trunc(v, 100) * 100

\* the column index of a sample
ColIndex(x) == trunc(x - XMin, PixelSize)

\* numpy indexing along an axis of length RasterWidth: a negative index
\* counts from the end, anything else out of range raises IndexError
IndexOk(idx) == (-RasterWidth <= idx) /\ (idx < RasterWidth)
EffCol(idx) == IF idx < 0 THEN idx + RasterWidth ELSE idx

\* sorted(data, key=itemgetter(1)): stable, ascending in y
RECURSIVE Insert(_, _)
Insert(s, e) ==
    IF s = <<>> THEN <<e>>
    ELSE IF s[Len(s)].values[2] <= e.values[2] THEN Append(s, e)
    ELSE Append(Insert(SubSeq(s, 1, Len(s) - 1), e), s[Len(s)])

RECURSIVE sorted(_)
sorted(s) ==
    IF s = <<>> THEN <<>>
    ELSE Insert(sorted(SubSeq(s, 1, Len(s) - 1)), s[Len(s)])

\* groups[k] after groupby(data, itemgetter(1)) on the sorted rows: the rows
\* whose raw y equals k, in sorted order (<<>> when k is no key)
groups(d, k) ==
    LET HasKey(e) == e.values[2] = k
    IN SelectSeq(sorted(d), HasKey)

\* the grid writes of one flush, in the order the code makes them
RowWrites(d, row) ==
    LET g == groups(d, RowKey(row))
    IN [k \in 1 .. Len(g) |->
            [row |-> row, idx |-> ColIndex(g[k].values[1]),
             values |-> g[k].values, line |-> g[k].line]]

RECURSIVE FlushWrites(_, _)
FlushWrites(d, row) ==
    IF row >= RasterHeight THEN <<>>
    ELSE RowWrites(d, row) \o FlushWrites(d, row + 1)

\* grid[row, col] = i[field] for every write, in order
RECURSIVE Store(_, _, _)
Store(grid, ws, field) ==
    IF ws = <<>> THEN grid
    ELSE Store([grid EXCEPT ![<<ws[1].row, EffCol(ws[1].idx)>>] = IntCast(ws[1].values[field])],
               Tail(ws), field)

\* the working grids carried over to the next block
Keep(grid) == grid

\* lines 522-525: a fresh grid replaces each working grid once its slice
\* is written
Reset(grid) == Full

\* var[k, :, :] = grid on a variable along the unlimited time dimension:
\* the dimension grows to k + 1, slices never written read as fill
Extend(slices, n) ==
    [k \in 1 .. (IF n > Len(slices) THEN n ELSE Len(slices)) |->
        IF k <= Len(slices) THEN slices[k] ELSE [cell \in Cells |-> Sentinel]]

SetSlice(slices, k, grid) == [Extend(slices, k + 1) EXCEPT ![k + 1] = grid]

\* the inputs: the rows a result file may hold.  One sample on each cell of
\* the first two rows and columns, with y as the flush looks it up; one left
\* of the grid; one with the raw (two-decimal) y of the center of row 0.
\* Every sample has height 1.50, vx 2.00, vy -2.50, v_avg 0.75
SampleValues == <<150, 200, -250, 75>>
SamplePoints ==
    ({XMin + HalfPixel, XMin + 3 * HalfPixel} \X {RowKey(0), RowKey(1)})
        \cup {<<XMin - HalfPixel, RowKey(0)>>, <<XMin + HalfPixel, YMax - HalfPixel>>}
DataLines ==
    {<<p[1], p[2], SampleValues[1], SampleValues[2], SampleValues[3], SampleValues[4]>> :
        p \in SamplePoints}

\* ------------------------------------------------------------ dem_to_top
\* the elevations a cell of the DEM may hold, in hundredths
Elevations == {0, 1250}

\* the lines of a .top file
Text(s) == [text |-> s]
CountLine(n, size) == [np |-> n, deltx |-> size]
XyzLine(x, y, z) == [x |-> x, y |-> y, z |-> z]

\* lines 273-277
TopHeader(count) ==
    <<Text("ictop"), Text("  10"), Text("  np      deltx"),
      CountLine(count, PixelSize), Text("Topo_x Topo_y Topo_z")>>

\* lines 294-295
TopFooter == <<Text("topo_props"), Text("  0")>>

\* provider.block(1, block_extent, width, height, None) for the strip of
\* raster row `row`: width x height cells resampled from that one row
Block(band, row) == [cell \in Cells |-> band[<<row, cell[2]>>]]

\* every cell taken as valid, as in the variant that writes all cells
isNoDataNever(block, row, col) == FALSE

isNoData(block, row, col) == block[<<row, col>>] = None

\* y taken at the upper edge of the row instead of its center
TopYEdge(row) == YMax - 2 * row * HalfPixel

\* x and y of a cell as dem_to_top computes them: lines 288-289
TopX(col) == XMin + (2 * col + 1) * HalfPixel
TopY(row) == YMax - (2 * row + 1) * HalfPixel

\* the inner loop, lines 287-292: the lines of one raster row from col on
RECURSIVE TopCols(_, _, _)
TopCols(band, row, col) ==
    IF col >= RasterWidth THEN <<>>
    ELSE LET block == Block(band, row)
         IN (IF ~isNoData(block, row, col)
             THEN <<XyzLine(TopX(col), TopY(row), block[<<row, col>>])>>
             ELSE <<>>) \o TopCols(band, row, col + 1)

\* the outer loop, lines 279-292
RECURSIVE TopRows(_, _)
TopRows(band, row) ==
    IF row >= RasterHeight THEN <<>>
    ELSE TopCols(band, row, 0) \o TopRows(band, row + 1)

\* a second pass that takes the 4th line to be the line numbered 4
RewriteLinesOffByOne(lines, count) ==
    [i \in 1 .. Len(lines) |->
        IF i - 1 = 4 THEN CountLine(count, PixelSize) ELSE lines[i]]

\* the second pass, lines 301-305: enumerate() counts from 0
RewriteLines(lines, count) ==
    [i \in 1 .. Len(lines) |->
        IF i - 1 = 3 THEN CountLine(count, PixelSize) ELSE lines[i]]

\* the first pass: lines 263-295
DemToTopWrite ==
    /\ dpc = "start"
    /\ dpc' = "written"
    /\ LET body == TopRows(raster, 0)
       IN /\ valid_count' = Len(body)
          /\ top' = Some(TopHeader(RasterWidth * RasterHeight) \o body \o TopFooter)
    /\ UNCHANGED <<raster, bak>>
    /\ UNCHANGED resVars
    /\ UNCHANGED otherVars

\* the second pass: lines 297-305
DemToTopRewrite ==
    /\ dpc = "written"
    /\ dpc' = "rewritten"
    /\ bak' = top
    /\ top' = Some(RewriteLines(top[1], valid_count))
    /\ UNCHANGED <<raster, valid_count>>
    /\ UNCHANGED resVars
    /\ UNCHANGED otherVars

\* line 307
DemToTopRemove ==
    /\ dpc = "rewritten"
    /\ dpc' = "done"
    /\ bak' = None
    /\ UNCHANGED <<raster, top, valid_count>>
    /\ UNCHANGED resVars
    /\ UNCHANGED otherVars

\* --------------------------------------------------------- res_to_netcdf
\* lines 363-484: the dataset, its coordinate variables, the working grids
OpenDataset ==
    /\ pc = "start"
    /\ pc' = "reading"
    /\ nc' = [latitude |-> [row \in Rows |-> NcLatitude(row)],
              longitude |-> [col \in Cols |-> NcLongitude(col)],
              time |-> <<>>, Height |-> <<>>, Vx |-> <<>>, Vy |-> <<>>, Vavg |-> <<>>]
    /\ h' = Full
    /\ v_x' = Full
    /\ v_y' = Full
    /\ v_avg' = Full
    /\ UNCHANGED <<file, sph_time, block_read, data, c, dates, writes>>
    /\ UNCHANGED demVars
    /\ UNCHANGED otherVars

\* a line that starts with "time": lines 488-495
ReadTime ==
    /\ pc = "reading"
    /\ Len(dates) < MaxTimes
    /\ LET t == Len(dates) * TimeStep
       IN /\ file' = Append(file, [kind |-> "time", time |-> t])
          /\ block_read' = (IF sph_time # None THEN TRUE ELSE block_read)
          /\ sph_time' = Some(t)
          /\ dates' = Append(dates, t)
    /\ UNCHANGED <<pc, data, h, v_x, v_y, v_avg, c, nc, writes>>
    /\ UNCHANGED demVars
    /\ UNCHANGED otherVars

\* lines 517-520: the four grids, with the writes of the flush stored in
\* them, become slice k of the four variables
WriteSlices(ds, k, ws) ==
    [ds EXCEPT !.Height = SetSlice(@, k, Store(h, ws, 3)),
               !.Vx = SetSlice(@, k, Store(v_x, ws, 4)),
               !.Vy = SetSlice(@, k, Store(v_y, ws, 5)),
               !.Vavg = SetSlice(@, k, Store(v_avg, ws, 6))]

\* the log entries of a flush into slice k: for each grid write its cell, the
\* column index computed, the line of the file the sample came from, and
\* whether it is the last write of the flush to its cell
Logged(k, ws) ==
    {[slice |-> k, row |-> ws[i].row, idx |-> ws[i].idx, col |-> EffCol(ws[i].idx),
      line |-> ws[i].line,
      last |-> \A j \in (i + 1) .. Len(ws) :
                  <<ws[j].row, EffCol(ws[j].idx)>> # <<ws[i].row, EffCol(ws[i].idx)>>]
        : i \in 1 .. Len(ws)}

\* whether the flush of the rows d raises IndexError: itemgetter(1) on a row
\* of fewer than two fields (line 498), a field missing from a row that is
\* written (lines 509-512), or a column outside the grid
FlushRaises(d) ==
    \/ \E i \in 1 .. Len(d) : Len(d[i].values) < 2
    \/ LET ws == FlushWrites(d, 0)
       IN \E k \in 1 .. Len(ws) : Len(ws[k].values) < 6 \/ ~IndexOk(ws[k].idx)

\* lines 497-529 for a line that does not start with "time": the flush of the
\* block before the last marker when one is pending, then float() of every
\* token (which raises ValueError when parses is FALSE), then the row joins
\* the accumulated rows
ReadLine(entry, values, parses) ==
    LET row == [values |-> values, line |-> Len(file) + 1]
        ws == FlushWrites(data, 0)
    IN /\ file' = Append(file, entry)
       /\ IF block_read
          THEN IF FlushRaises(data)
               THEN /\ pc' = "raised"
                    /\ UNCHANGED <<data, h, v_x, v_y, v_avg, c, nc, writes, block_read>>
               ELSE /\ c' = c + 1
                    /\ nc' = WriteSlices(nc, c + 1, ws)
                    /\ writes' = writes \cup Logged(c + 1, ws)
                    /\ h' = Reset(Store(h, ws, 3))
                    /\ v_x' = Reset(Store(v_x, ws, 4))
                    /\ v_y' = Reset(Store(v_y, ws, 5))
                    /\ v_avg' = Reset(Store(v_avg, ws, 6))
                    /\ block_read' = FALSE
                    /\ data' = IF parses THEN <<row>> ELSE <<>>
                    /\ pc' = IF parses THEN pc ELSE "raised"
          ELSE /\ data' = IF parses THEN Append(data, row) ELSE data
               /\ pc' = IF parses THEN pc ELSE "raised"
               /\ UNCHANGED <<h, v_x, v_y, v_avg, c, nc, writes, block_read>>

\* a line of six numbers
ReadData ==
    /\ pc = "reading"
    /\ Len(file) - Len(dates) < MaxRows
    /\ \E values \in DataLines : ReadLine([kind |-> "data", values |-> values], values, TRUE)
    /\ UNCHANGED <<sph_time, dates>>
    /\ UNCHANGED demVars
    /\ UNCHANGED otherVars

\* rows whose field count is not 6: an empty line; three fields with the y of
\* grid row 0; three fields with a y of no grid row; seven fields
ShortLines ==
    {<<>>,
     <<XMin + HalfPixel, RowKey(0), SampleValues[1]>>,
     <<XMin + HalfPixel, YMax - HalfPixel, SampleValues[1]>>,
     <<XMin + HalfPixel, RowKey(0), SampleValues[1], SampleValues[2], SampleValues[3],
       SampleValues[4], 0>>}

\* a line of numbers that are not six
ReadShort ==
    /\ pc = "reading"
    /\ Len(file) - Len(dates) < MaxRows
    /\ \E values \in ShortLines : ReadLine([kind |-> "data", values |-> values], values, TRUE)
    /\ UNCHANGED <<sph_time, dates>>
    /\ UNCHANGED demVars
    /\ UNCHANGED otherVars

\* a malformed line that is skipped
ReadMalformedSkipped ==
    /\ pc = "reading"
    /\ Len(file) - Len(dates) < MaxRows
    /\ file' = Append(file, [kind |-> "bad"])
    /\ UNCHANGED <<pc, sph_time, block_read, data, h, v_x, v_y, v_avg, c, dates, nc, writes>>
    /\ UNCHANGED demVars
    /\ UNCHANGED otherVars

\* a line that does not start with "time" and holds a token float() rejects
ReadMalformed ==
    /\ pc = "reading"
    /\ Len(file) - Len(dates) < MaxRows
    /\ ReadLine([kind |-> "bad"], <<>>, FALSE)
    /\ UNCHANGED <<sph_time, dates>>
    /\ UNCHANGED demVars
    /\ UNCHANGED otherVars

\* an end of file that flushes the rows still accumulated
EndOfFileFlush ==
    /\ pc = "reading"
    /\ pc' = "closed"
    /\ LET ws == FlushWrites(data, 0)
           flushed == IF sph_time # None /\ data # <<>>
                      THEN WriteSlices(nc, c + 1, ws) ELSE nc
       IN /\ nc' = [flushed EXCEPT !.time = dates,
                                   !.Height = Extend(@, Len(dates)),
                                   !.Vx = Extend(@, Len(dates)),
                                   !.Vy = Extend(@, Len(dates)),
                                   !.Vavg = Extend(@, Len(dates))]
          /\ writes' = IF sph_time # None /\ data # <<>>
                       THEN writes \cup Logged(c + 1, ws) ELSE writes
    /\ UNCHANGED <<file, sph_time, block_read, data, h, v_x, v_y, v_avg, c, dates>>
    /\ UNCHANGED demVars
    /\ UNCHANGED otherVars

\* an end of file that closes the dataset without writing the time variable
EndOfFileNoTime ==
    /\ pc = "reading"
    /\ pc' = "closed"
    /\ UNCHANGED <<file, sph_time, block_read, data, h, v_x, v_y, v_avg, c, dates, nc, writes>>
    /\ UNCHANGED demVars
    /\ UNCHANGED otherVars

\* end of file: lines 531-533
EndOfFile ==
    /\ pc = "reading"
    /\ pc' = "closed"
    /\ nc' = [nc EXCEPT !.time = dates,
                        !.Height = Extend(@, Len(dates)),
                        !.Vx = Extend(@, Len(dates)),
                        !.Vy = Extend(@, Len(dates)),
                        !.Vavg = Extend(@, Len(dates))]
    /\ UNCHANGED <<file, sph_time, block_read, data, h, v_x, v_y, v_avg, c, dates, writes>>
    /\ UNCHANGED demVars
    /\ UNCHANGED otherVars

ResNext == OpenDataset \/ ReadTime \/ ReadData \/ EndOfFile

\* res_to_netcdf on one result file; dem_to_top is not running
InitRes ==
    /\ pc = "start"
    /\ file = <<>>
    /\ sph_time = None
    /\ block_read = FALSE
    /\ data = <<>>
    /\ h = <<>>
    /\ v_x = <<>>
    /\ v_y = <<>>
    /\ v_avg = <<>>
    /\ c = 0
    /\ dates = <<>>
    /\ nc = None
    /\ writes = {}
    /\ dpc = "idle"
    /\ raster = <<>>
    /\ top = None
    /\ bak = None
    /\ valid_count = 0
    /\ OtherIdle

SpecRes == InitRes /\ [][ResNext]_vars

\* result files with a malformed line
ResBadNext == OpenDataset \/ ReadTime \/ ReadData \/ ReadMalformed \/ EndOfFile
SpecResBad == InitRes /\ [][ResBadNext]_vars

\* result files whose rows have a wrong number of fields
ResShortNext == OpenDataset \/ ReadTime \/ ReadShort \/ EndOfFile
SpecResShort == InitRes /\ [][ResShortNext]_vars

\* both converters applied to one DEM: dem_to_top, and the part of
\* res_to_netcdf that depends on the DEM alone
DemNext == DemToTopWrite \/ DemToTopRewrite \/ DemToTopRemove \/ OpenDataset

InitDem ==
    /\ dpc = "start"
    /\ raster \in [Cells -> {None} \cup {Some(z) : z \in Elevations}]
    /\ top = None
    /\ bak = None
    /\ valid_count = 0
    /\ pc = "start"
    /\ file = <<>>
    /\ sph_time = None
    /\ block_read = FALSE
    /\ data = <<>>
    /\ h = <<>>
    /\ v_x = <<>>
    /\ v_y = <<>>
    /\ v_avg = <<>>
    /\ c = 0
    /\ dates = <<>>
    /\ nc = None
    /\ writes = {}
    /\ OtherIdle

SpecDem == InitDem /\ [][DemNext]_vars

\* --------------------------------------------------------- points_to_pts
\* the points of the features: pairwise distances 3, 4 and 5
PtsPoints == {<<0, 0>>, <<3, 0>>, <<0, 4>>, <<3, 4>>}
FeatureIds == 0 .. MaxFeatures
\* a feature: its id, its point, the Z of the point and the height attribute
PtsFeatures ==
    {[id |-> i, x |-> p[1], y |-> p[2], z |-> 150, attr |-> 275] : i \in FeatureIds, p \in PtsPoints}
PtsSources ==
    {s \in UNION {[1 .. n -> PtsFeatures] : n \in 0 .. MaxFeatures} :
        \A i \in DOMAIN s, j \in DOMAIN s : i # j => s[i].id # s[j].id}

\* the integer square root
Isqrt(n) == CHOOSE r \in 0 .. n : r * r <= n /\ n < (r + 1) * (r + 1)

\* QgsPointXY.distance
Distance(p, q) == Isqrt((p.x - q.x) * (p.x - q.x) + (p.y - q.y) * (p.y - q.y))

\* source.getFeatures(QgsFeatureRequest([fid])).nextFeature(f): the feature
\* with that id, or None (f stays an invalid feature without geometry)
FeatureById(src, fid) ==
    IF \E i \in DOMAIN src : src[i].id = fid
    THEN Some(src[CHOOSE i \in DOMAIN src : src[i].id = fid])
    ELSE None

\* the lines of a .pts file
PtsCountLine(count, spacing) == [npoin |-> count, spacing |-> spacing]
PtsLine(ft, z) == [x |-> ft.x, y |-> ft.y, h |-> IF z THEN ft.z ELSE ft.attr]

\* a header without its line of column labels
PtsHeaderNoLabels(src, spacing) ==
    <<Text("npoin source  grid spacing  facthsml"),
      PtsCountLine(Len(src), spacing)>>

\* lines 337-339
PtsHeader(src, spacing) ==
    <<Text("npoin source  grid spacing  facthsml"),
      PtsCountLine(Len(src), spacing),
      Text("---  X   ---------  Y   -------  h  -----")>>

\* lines 341-343
PtsBody(src, z) == [i \in 1 .. Len(src) |-> PtsLine(src[i], z)]

\* lines 321-334: the request, then the spacing from the features with the
\* ids 1 and 2; setSubsetOfAttributes may reject a missing field name, and
\* asPoint() of the geometry of an invalid feature raises
PointsToPtsSpacing ==
    /\ ppc = "start"
    /\ \E rejected \in (IF ~use_z /\ field_name = None THEN BOOLEAN ELSE {FALSE}) :
        LET f1 == FeatureById(source, 1)
            f2 == FeatureById(source, 2)
        IN IF rejected \/ f1 = None \/ f2 = None
           THEN /\ ppc' = "raised"
                /\ dist' = dist
           ELSE /\ ppc' = "spaced"
                /\ dist' = Some(Distance(f1[1], f2[1]))
    /\ UNCHANGED <<source, field_name, use_z, pts>>
    /\ UNCHANGED notPtsVars

\* lines 336-343: the header, then one line per feature; ft[field_name]
\* raises on the first feature when no field is given and use_z is off
PointsToPtsWrite ==
    /\ ppc = "spaced"
    /\ IF ~use_z /\ field_name = None /\ Len(source) > 0
       THEN /\ ppc' = "raised"
            /\ pts' = Some(PtsHeader(source, dist[1]))
       ELSE /\ ppc' = "done"
            /\ pts' = Some(PtsHeader(source, dist[1]) \o PtsBody(source, use_z))
    /\ UNCHANGED <<source, field_name, use_z, dist>>
    /\ UNCHANGED notPtsVars

PtsNext == PointsToPtsSpacing \/ PointsToPtsWrite

InitPts ==
    /\ ppc = "start"
    /\ source \in PtsSources
    /\ field_name \in {None, Some("h")}
    /\ use_z \in BOOLEAN
    /\ dist = None
    /\ pts = None
    /\ ResIdle
    /\ DemIdle
    /\ AlgIdle
    /\ GenIdle
    /\ ExecIdle

SpecPts == InitPts /\ [][PtsNext]_vars

\* ------------------------------------------------- the processing algorithms
Algorithms == {"DemToTop", "PointsToPts", "ResToNetcdf", "SphSimpleMode", "SphAdvancedMode"}
SphModes == {"SphSimpleMode", "SphAdvancedMode"}
ProblemNames == {"frank", "run 2"}
TempDirs == {"/tmp/sph-a", "/tmp/sph-b"}
OutputDir == "/out"
\* the inputs of an invocation: the layer or file is there and valid, or not
InputNames == {"dem", "pts", "master", "config", "res", "exe"}

\* os.path.join of a directory and a file name given by its parts
Join(dir, name) == [dir |-> dir, name |-> name]

\* a directory, as a path
Dir(dir) == Join(dir, <<>>)

\* a copy of an input file
CopyOf(input) == [copy_of |-> input]

\* what QgsBlockingProcess reports when the process has exited
ExitStatuses == {"NormalExit", "CrashExit"}
ProcessErrors == {"FailedToStart", "Crashed", "UnknownError"}
Exits ==
    [canceled : BOOLEAN, res : 0 .. MaxExitCode, exitStatus : ExitStatuses,
     processError : ProcessErrors]

\* the files the SPH tool may leave in the working directory
Suffixes == {"post.msh", "post.res", "QGIS_res"}

\* the values of the SPH_EXECUTABLE setting: not set, or a path
Settings == {None, Some(Join("/opt/sph", <<"SPH24.exe">>)), Some(Join("/opt/sph", <<"sph_v2">>))}

\* sph_executable(), lines 57-62
sph_executable == IF sph_setting # None THEN sph_setting[1] ELSE Join("", <<"sph24">>)

\* os.path.basename
Basename(path) == path.name

\* a batch script that pipes files.txt only once
generate_batch_file_once(pn, wd) ==
    [files |-> (Join(wd, <<"files.txt">>) :> <<<<pn>>>>) @@
               (Join(wd, <<pn, ".bat">>) :>
                    << <<"set CWDIR=%~dp0">>, <<"cd ", wd>>,
                       <<"SPH24.exe < ", "files.txt">>, <<"cd %WDIR%">> >>),
     batch_file |-> Join(wd, <<pn, ".bat">>)]

\* generate_batch_file, lines 125-144: the files written, each a sequence of
\* lines, each line the parts it is formatted from, and the path returned
generate_batch_file(pn, wd) ==
    [files |-> (Join(wd, <<"files.txt">>) :> << <<pn>>, <<pn>> >>) @@
               (Join(wd, <<pn, ".bat">>) :>
                    << <<"set CWDIR=%~dp0">>, <<"cd ", wd>>,
                       <<"SPH24.exe < ", "files.txt">>, <<"cd %WDIR%">> >>),
     batch_file |-> Join(wd, <<pn, ".bat">>)]

\* an execute that looks at the exit status before the cancellation
OutcomeCrashFirst(command, exit) ==
    IF exit.exitStatus = "CrashExit"
    THEN [raises |-> Some([msg |-> "Process was unexpectedly terminated."]), log |-> <<>>]
    ELSE IF exit.canceled /\ exit.res # 0
    THEN [raises |-> None, log |-> <<[info |-> "Process was canceled and did not complete."]>>]
    ELSE IF exit.res = 0
    THEN [raises |-> None, log |-> <<[info |-> "Process completed successfully."]>>]
    ELSE IF exit.processError = "FailedToStart"
    THEN [raises |-> Some([msg |-> "failed to start", command |-> command]), log |-> <<>>]
    ELSE [raises |-> None, log |-> <<[error |-> "Process returned error code", code |-> exit.res]>>]

\* execute, lines 108-122: what it does with what the process reported;
\* command is the first word of the command line
Outcome(command, exit) ==
    IF exit.canceled /\ exit.res # 0
    THEN [raises |-> None, log |-> <<[info |-> "Process was canceled and did not complete."]>>]
    ELSE IF ~exit.canceled /\ exit.exitStatus = "CrashExit"
    THEN [raises |-> Some([msg |-> "Process was unexpectedly terminated."]), log |-> <<>>]
    ELSE IF exit.res = 0
    THEN [raises |-> None, log |-> <<[info |-> "Process completed successfully."]>>]
    ELSE IF exit.processError = "FailedToStart"
    THEN [raises |-> Some([msg |-> "failed to start", command |-> command]), log |-> <<>>]
    ELSE [raises |-> None, log |-> <<[error |-> "Process returned error code", code |-> exit.res]>>]

\* the first word of the command line of a mode
Command(a) == IF a = "SphSimpleMode" THEN "cmd.exe" ELSE "wine"

\* the files copy_inputs copies, in order (lines 162-176): the target name
\* and the input copied; the advanced mode passes no master or config file
Staging(a, pn) ==
    << [name |-> Basename(sph_executable), input |-> "exe"],
       [name |-> <<pn, ".top">>, input |-> "dem"],
       [name |-> <<pn, ".pts">>, input |-> "pts"] >> \o
    (IF a = "SphSimpleMode"
     THEN << [name |-> <<pn, ".master.dat">>, input |-> "master"],
             [name |-> <<pn, ".dat">>, input |-> "config"] >>
     ELSE <<>>)

\* whether a copy succeeds: the file must exist, and the advanced mode
\* hands copyfile the raster layer object in place of a path (line 252)
Copies(a, inp, step) ==
    /\ inp[step.input]
    /\ ~(a = "SphAdvancedMode" /\ step.input = "dem")

\* the number of copies made before the first that fails
Staged(a, inp, steps) ==
    IF \E i \in DOMAIN steps : ~Copies(a, inp, steps[i])
    THEN (CHOOSE i \in DOMAIN steps :
            /\ ~Copies(a, inp, steps[i])
            /\ \A j \in 1 .. (i - 1) : Copies(a, inp, steps[j])) - 1
    ELSE Len(steps)

\* processAlgorithm up to the return of copy_inputs (sph_simple_mode.py
\* lines 89-98, sph_advanced_mode.py lines 213-252, copy_inputs lines 160-178)
CopyInputs ==
    /\ alg \in SphModes
    /\ apc = "start"
    /\ IF alg = "SphAdvancedMode" /\ ~inputs["dem"]
       THEN /\ apc' = "raised"
            /\ exc' = Some([msg |-> "invalid raster"])
            /\ UNCHANGED <<dirs, fs, work_dir, created>>
       ELSE \E d \in TempDirs \ dirs :
            LET steps == Staging(alg, problem_name)
                n == Staged(alg, inputs, steps)
                copied == [q \in {Join(d, steps[i].name) : i \in 1 .. n} |->
                              CopyOf(steps[CHOOSE i \in 1 .. n : Join(d, steps[i].name) = q].input)]
            IN /\ dirs' = dirs \cup {d}
               /\ fs' = copied @@ fs
               /\ created' = created \cup {Dir(d)} \cup DOMAIN copied
               /\ IF n = Len(steps)
                  THEN /\ apc' = "staged"
                       /\ work_dir' = Some(d)
                       /\ exc' = exc
                  ELSE /\ apc' = "raised"
                       /\ work_dir' = work_dir
                       /\ exc' = Some([msg |-> "copy failed", input |-> steps[n + 1].input])
    /\ trace' = IF alg = "SphAdvancedMode" /\ ~inputs["dem"] THEN trace
                 ELSE Append(trace, "copy_inputs")
    /\ UNCHANGED <<sph_setting, alg, inputs, problem_name, batch_file, proc, log, result>>
    /\ UNCHANGED notAlgVars

\* generate_batch_file, called at sph_simple_mode.py line 99
GenerateBatchFile ==
    /\ alg \in SphModes
    /\ apc = "staged"
    /\ LET g == generate_batch_file(problem_name, work_dir[1])
       IN /\ fs' = g.files @@ fs
          /\ batch_file' = Some(g.batch_file)
          /\ created' = created \cup DOMAIN g.files
    /\ apc' = "scripted"
    /\ trace' = Append(trace, "generate_batch_file")
    /\ UNCHANGED <<sph_setting, alg, inputs, problem_name, dirs, work_dir, proc, log, exc, result>>
    /\ UNCHANGED notAlgVars

\* execute, called at sph_simple_mode.py lines 102-103: the process runs to
\* its exit, leaving some of its output files in the working directory
Execute ==
    /\ alg \in SphModes
    /\ apc = "scripted"
    /\ \E exit \in Exits, left \in SUBSET Suffixes :
        LET o == Outcome(Command(alg), exit)
        IN /\ proc' = Some(exit)
           /\ fs' = [q \in {Join(work_dir[1], <<problem_name, ".", x>>) : x \in left} |->
                        [output |-> q.name[3]]] @@ fs
           /\ log' = log \o o.log
           /\ exc' = o.raises
           /\ apc' = IF o.raises = None THEN "executed" ELSE "raised"
    /\ trace' = Append(trace, "execute")
    /\ UNCHANGED <<sph_setting, alg, inputs, problem_name, dirs, work_dir, batch_file, created, result>>
    /\ UNCHANGED notAlgVars

\* copy_outputs, lines 346-356, called at sph_simple_mode.py line 106
CopyOutputs ==
    /\ alg \in SphModes
    /\ apc = "executed"
    /\ LET found == {x \in Suffixes : Join(work_dir[1], <<problem_name, ".", x>>) \in DOMAIN fs}
           copies == [q \in {Join(OutputDir, <<problem_name, ".", x>>) : x \in found} |->
                         fs[Join(work_dir[1], q.name)]]
       IN /\ dirs' = dirs \cup {OutputDir}
          /\ fs' = copies @@ fs
          /\ created' = created \cup {Dir(x) : x \in {OutputDir} \ dirs} \cup DOMAIN copies
    /\ apc' = "collected"
    /\ trace' = Append(trace, "copy_outputs")
    /\ UNCHANGED <<sph_setting, alg, inputs, problem_name, work_dir, batch_file, proc, log, exc, result>>
    /\ UNCHANGED notAlgVars

\* a cleanup that does not wait for the outputs to be copied
CleanupEarly ==
    /\ alg \in SphModes
    /\ apc = "executed"
    /\ dirs' = dirs \ {work_dir[1]}
    /\ fs' = [q \in {r \in DOMAIN fs : r.dir # work_dir[1]} |-> fs[q]]
    /\ result' = Some([OUTPUT |-> OutputDir,
                       OUTPUT_FILE |-> Join(OutputDir, <<problem_name, ".", "QGIS_res">>)])
    /\ apc' = "returned"
    /\ trace' = Append(trace, "rmtree")
    /\ UNCHANGED <<sph_setting, alg, inputs, problem_name, work_dir, batch_file, proc, log, exc, created>>
    /\ UNCHANGED notAlgVars

\* shutil.rmtree and the return, sph_simple_mode.py lines 109-114
Cleanup ==
    /\ alg \in SphModes
    /\ apc = "collected"
    /\ dirs' = dirs \ {work_dir[1]}
    /\ fs' = [q \in {r \in DOMAIN fs : r.dir # work_dir[1]} |-> fs[q]]
    /\ result' = Some([OUTPUT |-> OutputDir,
                       OUTPUT_FILE |-> Join(OutputDir, <<problem_name, ".", "QGIS_res">>)])
    /\ apc' = "returned"
    /\ trace' = Append(trace, "rmtree")
    /\ UNCHANGED <<sph_setting, alg, inputs, problem_name, work_dir, batch_file, proc, log, exc, created>>
    /\ UNCHANGED notAlgVars

\* DemToTop.processAlgorithm (dem_to_top.py lines 61-73) and
\* PointsToPts.processAlgorithm (points_to_pts.py lines 68-84): the layer is
\* checked, then the converter writes the output file
ConvertLayer ==
    /\ alg \in {"DemToTop", "PointsToPts"}
    /\ apc = "start"
    /\ LET input == IF alg = "DemToTop" THEN "dem" ELSE "pts"
           output == Join(OutputDir, <<problem_name, IF alg = "DemToTop" THEN ".top" ELSE ".pts">>)
       IN IF ~inputs[input]
          THEN /\ apc' = "raised"
               /\ exc' = Some([msg |-> "invalid layer", input |-> input])
               /\ UNCHANGED <<fs, created, result>>
          ELSE /\ apc' = "returned"
               /\ exc' = exc
               /\ fs' = (output :> [converted |-> input]) @@ fs
               /\ created' = created \cup {output}
               /\ result' = Some([OUTPUT |-> output])
    /\ trace' = trace
    /\ UNCHANGED <<sph_setting, alg, inputs, problem_name, dirs, work_dir, batch_file, proc, log>>
    /\ UNCHANGED notAlgVars

\* ResToNetcdf.processAlgorithm (res_to_netcdf.py lines 68-78): the DEM is
\* checked; res_to_netcdf creates the dataset (utils.py line 373) before it
\* opens the RES file (line 481)
ConvertRes ==
    /\ alg = "ResToNetcdf"
    /\ apc = "start"
    /\ LET output == Join(OutputDir, <<problem_name, ".nc">>)
       IN IF ~inputs["dem"]
          THEN /\ apc' = "raised"
               /\ exc' = Some([msg |-> "invalid raster"])
               /\ UNCHANGED <<fs, created, result>>
          ELSE /\ fs' = (output :> [converted |-> "res"]) @@ fs
               /\ created' = created \cup {output}
               /\ IF ~inputs["res"]
                  THEN /\ apc' = "raised"
                       /\ exc' = Some([msg |-> "no such file", input |-> "res"])
                       /\ result' = result
                  ELSE /\ apc' = "returned"
                       /\ exc' = exc
                       /\ result' = Some([OUTPUT |-> output])
    /\ trace' = trace
    /\ UNCHANGED <<sph_setting, alg, inputs, problem_name, dirs, work_dir, batch_file, proc, log>>
    /\ UNCHANGED notAlgVars

AlgNext ==
    CopyInputs \/ GenerateBatchFile \/ Execute \/ CopyOutputs \/ Cleanup \/ ConvertLayer \/ ConvertRes

InitAlg ==
    /\ alg \in Algorithms
    /\ apc = "start"
    /\ inputs \in [InputNames -> BOOLEAN]
    /\ problem_name \in ProblemNames
    /\ dirs \in SUBSET {OutputDir, "/tmp/sph-a"}
    /\ fs = <<>>
    /\ work_dir = None
    /\ batch_file = None
    /\ proc = None
    /\ log = <<>>
    /\ exc = None
    /\ created = {}
    /\ result = None
    /\ trace = <<>>
    /\ sph_setting \in Settings
    /\ ResIdle
    /\ DemIdle
    /\ PtsIdle
    /\ GenIdle
    /\ ExecIdle

SpecAlg == InitAlg /\ [][AlgNext]_vars

\* ------------------------------------------------ the configuration generators
\* a Python value of a params dictionary: an int, a float (in hundredths, not
\* negative) or a str
PyInt(n) == [int |-> n]
PyFloat(x) == [float |-> x]
PyStr(t) == [str |-> t]

\* what an f-string makes of a value: an int in decimal digits, a float in its
\* shortest representation with at least one decimal, a str as it is
Format(v) ==
    IF DOMAIN v = {"int"} THEN ToString(v.int)
    ELSE IF DOMAIN v = {"str"} THEN v.str
    ELSE LET whole == v.float \div 100
             frac == v.float % 100
         IN ToString(whole) \o "." \o
            (IF frac % 10 = 0 THEN ToString(frac \div 10)
             ELSE IF frac < 10 THEN "0" \o ToString(frac)
             ELSE ToString(frac))

MasterKeys == {"problem_name", "dt", "time_end", "print_step"}
DataKeys ==
    {"problem_name", "cgra", "dens", "cmanning", "eros_coef", "nfrict", "tauy0", "visco", "tanfi8"}
\* a key neither generator reads
OtherKeys == {"law_type"}

\* the values of the unit tests (test_utils.py lines 57-71)
TestParams ==
    [problem_name |-> PyStr("frank"), dt |-> PyFloat(10), time_end |-> PyInt(80),
     print_step |-> PyInt(25), cgra |-> PyFloat(980), dens |-> PyFloat(200000),
     cmanning |-> PyInt(0), eros_coef |-> PyInt(0), nfrict |-> PyInt(7), tauy0 |-> PyFloat(0),
     visco |-> PyFloat(0), tanfi8 |-> PyFloat(22), law_type |-> PyInt(7)]

\* the dictionaries of the model: the test values, varied in five keys
ParamSets ==
    {[TestParams EXCEPT !.problem_name = n, !.dt = d, !.print_step = s, !.cgra = g,
                        !.law_type = l] :
        n \in {PyStr("frank"), PyStr("25")}, d \in {PyFloat(10), PyFloat(25)},
        s \in {PyInt(25), PyFloat(2500)}, g \in {PyFloat(980), PyInt(9)}, l \in {PyInt(7), PyInt(3)}}

\* a master file that also carries cgra
generate_master_file_cgra(p) ==
    <<"1",
      Format(p.problem_name),
      "sph     gfl  Monte-Carlo",
      "  1      0      0 ",
      "problem_type   Integ_Alg ",
      "       1               4",
      "file.dat",
      Format(p.problem_name),
      "dt      time_end   maxtimesteps",
      Format(p.dt) \o "      " \o Format(p.time_end) \o "          1000000",
      "print_step   save_step  plot_step",
      "   " \o Format(p.print_step) \o "          " \o Format(p.print_step) \o "       "
            \o Format(p.print_step),
      "dt_sph  ic_adapt    ",
      Format(p.cgra) \o "      1  ",
      "time_curves      max_pts",
      "     0              6  ",
      "cases_win      ic_eros",
      "   0              0 ">>

\* generate_master_file, lines 181-205: the lines written
generate_master_file(p) ==
    <<"1",
      Format(p.problem_name),
      "sph     gfl  Monte-Carlo",
      "  1      0      0 ",
      "problem_type   Integ_Alg ",
      "       1               4",
      "file.dat",
      Format(p.problem_name),
      "dt      time_end   maxtimesteps",
      Format(p.dt) \o "      " \o Format(p.time_end) \o "          1000000",
      "print_step   save_step  plot_step",
      "   " \o Format(p.print_step) \o "          " \o Format(p.print_step) \o "       "
            \o Format(p.print_step),
      "dt_sph  ic_adapt    ",
      "0.1      1  ",
      "time_curves      max_pts",
      "     0              6  ",
      "cases_win      ic_eros",
      "   0              0 ">>

\* generate_data_file, lines 208-252: the lines written
generate_data_file(p) ==
    <<"  1",
      Format(p.problem_name),
      "SWalg",
      "  0",
      "nhist",
      "  0",
      "ndimn",
      "   2",
      "soil  water  vps  ic_abs",
      " 1      0     0     0",
      "icunk     h_inf_SW  ",
      "  6         0.1",
      "file.pts",
      "  " \o Format(p.problem_name),
      "pa_sph,  nnps, sle, skf ",
      "  2       2     1    1         ",
      "sum_den,  av_vel, virt_part , nor_dens  ",
      "   T         T      F            F       ",
      "cgra   dens  cmanning  eros_Coef    nfrict     Tauy0   constK  visco   tanfi8  hfrict0    c11   tanfi0   .Bfact     hrelpw   Comp  ",
      " " \o Format(p.cgra) \o "   " \o Format(p.dens) \o "   " \o Format(p.cmanning)
          \o "           " \o Format(p.eros_coef) \o "          " \o Format(p.nfrict)
          \o "         " \o Format(p.tauy0) \o "     0.0     " \o Format(p.visco) \o "    "
          \o Format(p.tanfi8)
          \o "    1.e-3     0.0     0.      0.0       0.0      0.001",
      "K0",
      "  0",
      "icpwp ",
      "  0",
      "coarse",
      "  0",
      "chk_pts",
      "  0",
      "Gid_Mask_SW   1.hs  2.disp 3.v  4.Pwb  5 eros   6.Z  7.hrel  8.hw  9.eta  10.hs+hw  11.hsat   12.Pw",
      "               1      1    0    0      0        0        0       0       0     0       0          0",
      "T_change_to_W",
      "  1.e+12    ">>

\* one of the two calls of generate_master_file
GenerateMasterFile ==
    /\ \E i \in DOMAIN params :
        /\ master_file[i] = None
        /\ master_file' = [master_file EXCEPT ![i] = Some(generate_master_file(params[i]))]
    /\ UNCHANGED <<params, data_file, adv_pc, user>>
    /\ UNCHANGED notGenVars

\* one of the two calls of generate_data_file
GenerateDataFile ==
    /\ \E i \in DOMAIN params :
        /\ data_file[i] = None
        /\ data_file' = [data_file EXCEPT ![i] = Some(generate_data_file(params[i]))]
    /\ UNCHANGED <<params, master_file, adv_pc, user>>
    /\ UNCHANGED notGenVars

GenNext == GenerateMasterFile \/ GenerateDataFile

InitGen ==
    /\ params \in [1 .. 2 -> ParamSets]
    /\ master_file = [i \in 1 .. 2 |-> None]
    /\ data_file = [i \in 1 .. 2 |-> None]
    /\ adv_pc = "idle"
    /\ user = <<>>
    /\ ResIdle
    /\ DemIdle
    /\ PtsIdle
    /\ AlgIdle
    /\ ExecIdle

SpecGen == InitGen /\ [][GenNext]_vars

\* -------------------------------- the parameters of SphAdvancedMode
\* the values a user may supply (numbers in hundredths): the defaults of
\* sph_advanced_mode.py lines 86-199, varied in the parameters declared Double
UserValues ==
    [problem_name : {"frank"}, dt : {10, 25}, time_end : {1000}, print_step : {5},
     cgra : {981, 900, 50}, dens : {2000}, cmanning : {0}, eros_coef : {0}, nfrict : {7},
     tauy0 : {0, 250}, visco : {0, 75}, tanfi8 : {22, 100, 314}]

\* the ways parameterAsInt may turn a number with a fraction into an int
IntConversions == {"round", "truncate"}
AsInt(x, how) == IF how = "round" THEN (x + 50) \div 100 ELSE x \div 100

\* parameterAsInt, as called at sph_advanced_mode.py lines 216-226
parameterAsInt(x, how) == PyInt(AsInt(x, how))

\* sph_advanced_mode.py lines 213-249: the parameters are read and the params
\* dictionary is built (the DEM is a valid layer)
ReadParameters ==
    /\ adv_pc = "start"
    /\ \E how \in IntConversions :
        params' = <<[problem_name |-> PyStr(user.problem_name),
                     dt |-> PyFloat(user.dt),
                     time_end |-> PyInt(user.time_end),
                     print_step |-> PyInt(user.print_step),
                     cgra |-> parameterAsInt(user.cgra, how),
                     dens |-> PyInt(user.dens),
                     cmanning |-> PyInt(user.cmanning),
                     eros_coef |-> PyInt(user.eros_coef),
                     nfrict |-> PyInt(user.nfrict),
                     tauy0 |-> parameterAsInt(user.tauy0, how),
                     visco |-> parameterAsInt(user.visco, how),
                     tanfi8 |-> parameterAsInt(user.tanfi8, how)]>>
    /\ adv_pc' = "read"
    /\ UNCHANGED <<master_file, data_file, user>>
    /\ UNCHANGED notGenVars

\* sph_advanced_mode.py line 252: copy_inputs is handed the raster layer
\* object and raises; no configuration file is generated
AdvancedCopyInputs ==
    /\ adv_pc = "read"
    /\ adv_pc' = "raised"
    /\ UNCHANGED <<params, master_file, data_file, user>>
    /\ UNCHANGED notGenVars

AdvNext == ReadParameters \/ AdvancedCopyInputs

InitAdv ==
    /\ adv_pc = "start"
    /\ user \in UserValues
    /\ params = <<>>
    /\ master_file = <<>>
    /\ data_file = <<>>
    /\ ResIdle
    /\ DemIdle
    /\ PtsIdle
    /\ AlgIdle
    /\ ExecIdle

SpecAdv == InitAdv /\ [][AdvNext]_vars

\* ------------------------------------------------ the output handlers of execute
\* text is a sequence of characters; LF and CR stand for "\n" and "\r"
Whitespace == {"LF", "CR", " "}
LineEnds == {"LF", "CR"}

\* the chunks the process may deliver
Chunks ==
    {<<"a">>, <<"a", "LF">>, <<"a", "LF", "b">>, <<"5", "%", "LF">>, <<"b", " ", "CR">>}

\* "%" in val
Contains(text, ch) == \E i \in 1 .. Len(text) : text[i] = ch

\* buffer.endswith(("\n", "\r"))
EndsWithLineEnd(text) == text # <<>> /\ text[Len(text)] \in LineEnds

\* str.rstrip(): without its trailing whitespace
RECURSIVE rstrip(_)
rstrip(text) ==
    IF text = <<>> THEN <<>>
    ELSE IF text[Len(text)] \in Whitespace THEN rstrip(SubSeq(text, 1, Len(text) - 1))
    ELSE text

\* lines 85-87 and 97-99: the buffer is passed on, stripped, and emptied when
\* it ends with a line end
Flush(buffer, sink) ==
    IF EndsWithLineEnd(buffer)
    THEN [buffer |-> <<>>, pushed |-> <<[to |-> sink, text |-> rstrip(buffer)]>>]
    ELSE [buffer |-> buffer, pushed |-> <<>>]

\* onStdOut, lines 78-87. A chunk with "%" reaches progressRegex, a name
\* that is defined nowhere: the NameError ends the handler before the buffer
\* is touched, and either is dropped by the caller of the handler or
\* surfaces and ends execute
OnStdOut ==
    /\ epc = "running"
    /\ Len(chunks) < MaxChunks
    /\ \E val \in Chunks :
        /\ chunks' = Append(chunks, [stream |-> "stdout", val |-> val])
        /\ IF Contains(val, "%")
           THEN /\ epc' \in {"running", "raised"}
                /\ UNCHANGED <<stdout_buffer, console>>
           ELSE LET f == Flush(stdout_buffer \o val, "pushConsoleInfo")
                IN /\ stdout_buffer' = f.buffer
                   /\ console' = console \o f.pushed
                   /\ epc' = epc
    /\ UNCHANGED stderr_buffer
    /\ UNCHANGED notExecVars

\* onStdErr, lines 93-99
OnStdErr ==
    /\ epc = "running"
    /\ Len(chunks) < MaxChunks
    /\ \E val \in Chunks :
        /\ chunks' = Append(chunks, [stream |-> "stderr", val |-> val])
        /\ LET f == Flush(stderr_buffer \o val, "reportError")
           IN /\ stderr_buffer' = f.buffer
              /\ console' = console \o f.pushed
    /\ UNCHANGED <<epc, stdout_buffer>>
    /\ UNCHANGED notExecVars

\* lines 108-122: the process has exited and execute returns or raises; the
\* buffers are not looked at again
ProcessExited ==
    /\ epc = "running"
    /\ epc' = "returned"
    /\ UNCHANGED <<stdout_buffer, stderr_buffer, console, chunks>>
    /\ UNCHANGED notExecVars

ExecNext == OnStdOut \/ OnStdErr \/ ProcessExited

InitExec ==
    /\ epc = "running"
    /\ stdout_buffer = <<>>
    /\ stderr_buffer = <<>>
    /\ console = <<>>
    /\ chunks = <<>>
    /\ ResIdle
    /\ DemIdle
    /\ PtsIdle
    /\ AlgIdle
    /\ GenIdle

SpecExec == InitExec /\ [][ExecNext]_vars

\* ====================================================== res_to_netcdf claims
IsTime(i) == file[i].kind = "time"
IsData(i) == file[i].kind = "data"
TimeLines == {i \in 1 .. Len(file) : IsTime(i)}
DataRows == {i \in 1 .. Len(file) : IsData(i)}

\* the 0-based index of the time marker that line i stands under (-1: none)
BlockOf(i) == Cardinality({j \in TimeLines : j < i}) - 1

\* the line of the last time marker (0: none)
LastMarker == IF TimeLines = {} THEN 0 ELSE CHOOSE j \in TimeLines : \A k \in TimeLines : k <= j

\* the rows of the blocks that were flushed: a data row follows a later
\* marker that is not the first marker of the file
FlushedRows ==
    {i \in DataRows : \E j \in TimeLines, k \in DataRows : i < j /\ j < k /\ BlockOf(j) >= 0}

\* center of a grid cell by the documented formula
CenterX(col) == XMin + (2 * col + 1) * HalfPixel
CenterY(row) == YMax - (2 * row + 1) * HalfPixel

Written(k, cell) == \E w \in writes : w.slice = k /\ <<w.row, w.col>> = cell

AllSentinel(k, cell) ==
    /\ nc.Height[k + 1][cell] = Sentinel
    /\ nc.Vx[k + 1][cell] = Sentinel
    /\ nc.Vy[k + 1][cell] = Sentinel
    /\ nc.Vavg[k + 1][cell] = Sentinel

\* C1 (as claimed): every sample written to the output lands in the slice whose
\* index is the index of the sample's own time marker, so that the slice's
\* time coordinate is that marker's time
C1_SliceOfOwnMarker ==
    pc = "closed" =>
        \A w \in writes :
            BlockOf(w.line) >= 0 =>
                /\ w.slice = BlockOf(w.line)
                /\ nc.time[w.slice + 1] = file[CHOOSE j \in TimeLines : BlockOf(j + 1) = BlockOf(w.line)].time

\* a result file of T >= 1 blocks, each time marker followed by a data row
WellFormed ==
    /\ Len(file) >= 1
    /\ IsTime(1)
    /\ \A j \in TimeLines : j < Len(file) /\ IsData(j + 1)

\* C2: a result file of T >= 1 time blocks, each marker followed by at least
\* one row, gives exactly T slices along the time dimension of every variable,
\* and every cell of a slice that no sample was written to holds -9999
C2_SliceCount ==
    (pc = "closed" /\ WellFormed) =>
        LET T == Cardinality(TimeLines)
        IN /\ Len(nc.time) = T
           /\ Len(nc.Height) = T
           /\ Len(nc.Vx) = T
           /\ Len(nc.Vy) = T
           /\ Len(nc.Vavg) = T
           /\ \A k \in 0 .. (T - 1), cell \in Cells :
                  ~Written(k, cell) => AllSentinel(k, cell)

\* the spec's case: two blocks of samples, one of them written to the grid
C2_Witness ==
    /\ pc = "closed"
    /\ WellFormed
    /\ Cardinality(TimeLines) = 2
    /\ Len(file) >= 4
    /\ writes # {}

\* C3: at end of file the rows after the last time marker have not been
\* written to any slice of the output
C3_LastBlockNotFlushed ==
    pc = "closed" =>
        \A i \in DataRows : i > LastMarker => ~\E w \in writes : w.line = i

\* a file closed after a flush, whose last block holds a sample that lies on
\* a cell of the grid
C3_Witness ==
    /\ pc = "closed"
    /\ c >= 1
    /\ \E i \in DataRows :
          /\ i > LastMarker
          /\ LastMarker > 0
          /\ \E row \in Rows : file[i].values[2] = RowKey(row)
          /\ file[i].values[1] >= XMin
          /\ file[i].values[1] < XMin + RasterWidth * PixelSize

\* C4: in every written slice, a cell that no sample of the flushed block was
\* written to holds -9999 in Height, Vx, Vy and Vavg
C4_NoCarryOver ==
    pc \in {"reading", "closed"} =>
        \A k \in 1 .. c, cell \in Cells : ~Written(k, cell) => AllSentinel(k, cell)

\* a cell written in one slice and not in a later written slice
C4_Witness ==
    /\ pc \in {"reading", "closed"}
    /\ \E k1 \in 1 .. c, k2 \in 1 .. c, cell \in Cells :
          /\ k1 < k2
          /\ Written(k1, cell)
          /\ nc.Height[k1 + 1][cell] # Sentinel
          /\ ~Written(k2, cell)
          /\ \E other \in Cells : Written(k2, other)

\* C5 (as claimed): a flushed sample is written to grid row r exactly when its
\* y truncated to 1 decimal equals the truncated center y of row r
C5_RowByTruncatedY ==
    pc \in {"reading", "closed"} =>
        \A i \in FlushedRows, row \in Rows :
            (\E w \in writes : w.line = i /\ w.row = row)
                <=> (truncate(file[i].values[2], 1) = truncate(CenterY(row), 1))

\* C6 (as claimed): the column index of every grid write is
\* floor((x - xmin) / pixel)
C6_ColumnIsFloor ==
    \A w \in writes : w.idx = floor(file[w.line].values[1] - XMin, PixelSize)

\* C7 (as claimed): the cell a sample was written to holds, in the written
\* slice, the sample's height, vx, vy and v_avg unchanged
C7_ValuesExact ==
    pc \in {"reading", "closed"} =>
        \A w \in writes :
            w.last =>
                /\ nc.Height[w.slice + 1][<<w.row, w.col>>] = file[w.line].values[3]
                /\ nc.Vx[w.slice + 1][<<w.row, w.col>>] = file[w.line].values[4]
                /\ nc.Vy[w.slice + 1][<<w.row, w.col>>] = file[w.line].values[5]
                /\ nc.Vavg[w.slice + 1][<<w.row, w.col>>] = file[w.line].values[6]

\* ========================================================= dem_to_top claims
ValidCells == {cell \in Cells : raster[cell] # None}

\* the cells of the raster in row-major order, row 0 first, west to east
RowMajor == [k \in 1 .. (RasterHeight * RasterWidth) |->
                <<(k - 1) \div RasterWidth, (k - 1) % RasterWidth>>]

IsValidCell(cell) == raster[cell] # None
RowMajorValid == SelectSeq(RowMajor, IsValidCell)

IsXyz(line) == DOMAIN line = {"x", "y", "z"}

\* C8: the file dem_to_top leaves has V + 7 lines for V cells with data: the
\* 5 header lines, one line per cell with data, the 2 footer lines
C8_LineCount ==
    dpc = "done" =>
        LET lines == top[1]
            V == Cardinality(ValidCells)
        IN /\ Len(lines) = V + 7
           /\ \A i \in 1 .. 5 : ~IsXyz(lines[i])
           /\ lines[1] = Text("ictop")
           /\ lines[5] = Text("Topo_x Topo_y Topo_z")
           /\ \A i \in 6 .. (V + 5) : IsXyz(lines[i])
           /\ lines[V + 6] = Text("topo_props")
           /\ lines[V + 7] = Text("  0")

\* a raster with a cell without data and a cell with data, converted
C8_Witness ==
    /\ dpc = "done"
    /\ ValidCells # {}
    /\ ValidCells # Cells

\* C9: the 4th line of the final file carries the number of data lines
\* written, and the second pass changed no other line of the first pass
C9_CountLine ==
    /\ dpc \in {"rewritten", "done"} =>
          /\ top[1][4] = CountLine(Cardinality(ValidCells), PixelSize)
          /\ Cardinality({i \in 1 .. Len(top[1]) : IsXyz(top[1][i])}) = Cardinality(ValidCells)
    /\ dpc = "rewritten" =>
          /\ Len(top[1]) = Len(bak[1])
          /\ \A i \in 1 .. Len(top[1]) : i # 4 => top[1][i] = bak[1][i]

\* the second pass has run on a raster where the count differs from
\* width * height
C9_Witness ==
    /\ dpc = "rewritten"
    /\ ValidCells # {}
    /\ ValidCells # Cells
    /\ bak[1][4] # top[1][4]

\* C10: the data lines follow the cells with data in row-major order, row 0
\* first, each with the center of its cell and the cell's elevation, and the
\* latitude and longitude variables of res_to_netcdf hold the same centers
C10_CellCenters ==
    (dpc \in {"written", "rewritten", "done"} /\ pc = "reading") =>
        /\ \A k \in 1 .. Len(RowMajorValid) :
              LET cell == RowMajorValid[k]
                  line == top[1][5 + k]
              IN /\ line = XyzLine(CenterX(cell[2]), CenterY(cell[1]), raster[cell])
                 /\ line.y = nc.latitude[cell[1]]
                 /\ line.x = nc.longitude[cell[2]]
        /\ \A row \in Rows : nc.latitude[row] = CenterY(row)
        /\ \A col \in Cols : nc.longitude[col] = CenterX(col)

\* both converters have run on a raster with data in two rows and two columns
C10_Witness ==
    /\ dpc = "done"
    /\ pc = "reading"
    /\ \E a \in ValidCells, b \in ValidCells : a[1] # b[1] /\ a[2] # b[2]

\* ====================================================== points_to_pts claims
IsPtsLine(line) == DOMAIN line = {"x", "y", "h"}
IsPtsCountLine(line) == DOMAIN line = {"npoin", "spacing"}

C12_SpacingOfFirstTwo ==
    Len(source) >= 2 =>
        /\ ppc # "raised" \/ (~use_z /\ field_name = None)
        /\ ppc \in {"spaced", "done"} => dist = Some(Distance(source[1], source[2]))
        /\ ppc = "done" => pts[1][2].spacing = Distance(source[1], source[2])

Required(a) ==
    CASE a = "DemToTop" -> {"dem"}
      [] a = "PointsToPts" -> {"pts"}
      [] a = "ResToNetcdf" -> {"dem", "res"}
      [] a = "SphSimpleMode" -> {"dem", "pts", "master", "config"}
      [] a = "SphAdvancedMode" -> {"dem", "pts"}

\* C15: when a required raster, vector or file input of an algorithm is
\* missing or invalid, the invocation raises before it has created any file
\* or directory
C15_NothingCreatedOnBadInput ==
    (\E i \in Required(alg) : ~inputs[i]) =>
        /\ apc \in {"start", "raised"}
        /\ created = {}

\* ============================================ res_to_netcdf claims, continued
IsBad(i) == file[i].kind = "bad"

\* C16: a line that does not start with 'time' and holds a non-numeric token
\* makes the conversion raise at that line: it is the last line read, the
\* conversion has stopped, and every write and every accumulated row comes
\* from a line before it
C16_RaisesAtMalformedLine ==
    \A i \in 1 .. Len(file) :
        IsBad(i) =>
            /\ pc = "raised"
            /\ i = Len(file)
            /\ \A w \in writes : w.line < i /\ w.slice <= c
            /\ \A k \in 1 .. Len(data) : data[k].line < i

C16_Witness ==
    /\ pc = "raised"
    /\ Len(file) >= 4
    /\ IsBad(Len(file))
    /\ IsTime(Len(file) - 1)
    /\ c = 1
    /\ writes # {}

\* C18: at the end of every file the number of flushed blocks is the number
\* of time markers minus one
C18_FlushPerMarker ==
    (pc = "closed" /\ TimeLines # {}) => c = Cardinality(TimeLines) - 1

\* C19: a data row whose field count is not 6 makes the conversion abort, so
\* no conversion that read such a row reaches its end
C19_WrongFieldCountAborts ==
    pc = "closed" => \A i \in DataRows : Len(file[i].values) = 6

\* C20: a data row that stands before the first time marker is not
\* accumulated and is written to no slice
C20_RowsBeforeFirstMarkerDropped ==
    \A i \in DataRows :
        BlockOf(i) = -1 =>
            /\ \A k \in 1 .. Len(data) : data[k].line # i
            /\ \A w \in writes : w.line # i

\* ============================================ configuration generator claims
AgreeOn(keys) == \A k \in keys : params[1][k] = params[2][k]

\* C17: the file generate_master_file writes depends only on problem_name, dt,
\* time_end and print_step, and the file generate_data_file writes only on
\* problem_name, cgra, dens, cmanning, eros_coef, nfrict, tauy0, visco and
\* tanfi8: two calls whose params agree on those keys write identical files;
\* the master file carries problem_name twice and print_step three times
C17_DependsOnListedKeys ==
    /\ (AgreeOn(MasterKeys) /\ master_file[1] # None /\ master_file[2] # None) =>
            master_file[1] = master_file[2]
    /\ (AgreeOn(DataKeys) /\ data_file[1] # None /\ data_file[2] # None) =>
            data_file[1] = data_file[2]
    /\ \A i \in 1 .. 2 :
        master_file[i] # None =>
            LET ps == Format(params[i].print_step)
            IN /\ master_file[i][1][2] = Format(params[i].problem_name)
               /\ master_file[i][1][8] = Format(params[i].problem_name)
               /\ master_file[i][1][12] = "   " \o ps \o "          " \o ps \o "       " \o ps

C17_Witness ==
    /\ AgreeOn(MasterKeys)
    /\ ~AgreeOn(DataKeys)
    /\ params[1].law_type # params[2].law_type
    /\ params[1].print_step = PyFloat(2500)
    /\ master_file[1] # None
    /\ master_file[1] = master_file[2]
    /\ data_file[1] # None
    /\ data_file[2] # None
    /\ data_file[1] # data_file[2]

\* =================================================== output handler claims
\* the characters of a stream received so far, and those passed on so far
RECURSIVE Received(_, _)
Received(stream, n) ==
    IF n = 0 THEN <<>>
    ELSE Received(stream, n - 1) \o (IF chunks[n].stream = stream THEN chunks[n].val ELSE <<>>)

RECURSIVE Passed(_, _)
Passed(sink, n) ==
    IF n = 0 THEN <<>>
    ELSE Passed(sink, n - 1) \o (IF console[n].to = sink THEN console[n].text ELSE <<>>)

IsInk(ch) == ch \notin Whitespace
Ink(text) == SelectSeq(text, IsInk)

\* C21: after each handler call no complete line waits in a buffer: neither
\* buffer holds a line end
C21_NoCompleteLineWaiting ==
    /\ ~\E i \in 1 .. Len(stdout_buffer) : stdout_buffer[i] \in LineEnds
    /\ ~\E i \in 1 .. Len(stderr_buffer) : stderr_buffer[i] \in LineEnds

\* C27: when execute returns, the characters received on each stream, white
\* space aside, are the characters passed to its sink, each once and in order
C27_NoOutputLost ==
    epc = "returned" =>
        /\ Ink(Passed("pushConsoleInfo", Len(console))) = Ink(Received("stdout", Len(chunks)))
        /\ Ink(Passed("reportError", Len(console))) = Ink(Received("stderr", Len(chunks)))

Steps == <<"copy_inputs", "generate_batch_file", "execute", "copy_outputs", "rmtree">>

\* C23: an SPH mode makes its calls in the order stage, write files.txt and
\* the script, run the process, copy the outputs, delete the working
\* directory, each once, all of them on a run that returns; the process has
\* run only after files.txt and the script were written, and the directory
\* is gone only after the outputs were copied
C23_StepOrder ==
    alg \in SphModes =>
        /\ Len(trace) <= Len(Steps)
        /\ trace = SubSeq(Steps, 1, Len(trace))
        /\ apc = "returned" => trace = Steps
        /\ proc # None <=> Len(trace) >= 3
        /\ Len(trace) >= 2 => batch_file # None
        /\ apc = "scripted" =>
              /\ Join(work_dir[1], <<"files.txt">>) \in DOMAIN fs
              /\ Join(work_dir[1], <<problem_name, ".bat">>) \in DOMAIN fs
        /\ (work_dir # None /\ work_dir[1] \notin dirs) <=> Len(trace) = 5
        /\ Len(trace) >= 4 => OutputDir \in dirs

C23_Witness ==
    /\ alg = "SphSimpleMode"
    /\ apc = "returned"
    /\ trace = Steps
    /\ work_dir[1] \notin dirs

\* C24: when processAlgorithm of an SPH mode has completed, by return or by
\* exception, no temporary directory it created exists
C24_WorkDirRemoved ==
    (alg \in SphModes /\ apc \in {"returned", "raised"}) =>
        \A d \in TempDirs : Dir(d) \in created => d \notin dirs

\* C25: the OUTPUT_FILE an SPH mode returns names a file that exists
C25_OutputFileExists ==
    (alg \in SphModes /\ apc = "returned") => result[1].OUTPUT_FILE \in DOMAIN fs

\* C28: the file name on the third line of the script is the base name of the
\* executable copy_inputs staged
C28_ScriptRunsStagedExecutable ==
    (alg \in SphModes /\ apc = "scripted") =>
        /\ Join(work_dir[1], Basename(sph_executable)) \in DOMAIN fs
        /\ fs[batch_file[1]][3] = <<Basename(sph_executable)[1] \o " < ", "files.txt">>

\* ======================================== res_to_netcdf claims, grid writes
\* C26: every grid write of a flush uses a row in 0 .. height-1 and a column
\* index in 0 .. width-1 and goes to the cell that contains the sample, so a
\* sample whose x is outside [xmin, xmin + width * pixel) is written nowhere
C26_WritesInsideGrid ==
    \A w \in writes :
        LET x == file[w.line].values[1]
            y == file[w.line].values[2]
        IN /\ 0 <= w.row /\ w.row < RasterHeight
           /\ 0 <= w.idx /\ w.idx < RasterWidth
           /\ XMin <= x /\ x < XMin + RasterWidth * PixelSize
           /\ XMin + w.col * PixelSize <= x /\ x < XMin + (w.col + 1) * PixelSize
           /\ YMax - (w.row + 1) * PixelSize <= y /\ y <= YMax - w.row * PixelSize

\* ================================================= SphAdvancedMode claims
\* the number a value of params stands for, in hundredths
Number(v) == IF DOMAIN v = {"int"} THEN 100 * v.int ELSE v.float

\* C29: the values handed to generate_data_file for the parameters declared
\* Double (cgra, tauy0, visco, tanfi8) are the values the user supplied, with
\* their fractional part
C29_DoublesReachDataFile ==
    adv_pc \in {"read", "raised"} =>
        \A k \in {"cgra", "tauy0", "visco", "tanfi8"} : Number(params[1][k]) = user[k]

====
